---- MODULE Spec2Model ----
(***************************************************************************)
(* dazzle-filekit: file transfer with attribute preservation.              *)
(*                                                                         *)
(* The filesystem is the only state the library shares between calls.      *)
(* Every library function is an operator that maps a filesystem and its    *)
(* arguments to the SET of outcomes the call can have: one outcome per     *)
(* way the underlying platform calls (mkdir, stat, copy, rename, chmod,    *)
(* utime, chown, subprocess) can succeed or fail.  An outcome carries the  *)
(* filesystem after the call, the value returned and the sequence of       *)
(* platform calls made (the trace).  An action is one public call.         *)
(***************************************************************************)
EXTENDS Integers, Sequences, FiniteSets, TLC

VARIABLES
    platform,   \* platform.system(): "Linux" or "Windows"
    pywin32,    \* whether `import win32api` succeeds
    fs,         \* the filesystem: path -> node
    pre,        \* the filesystem when the last public call started
    last,       \* the last public call: operation, arguments, result, trace
    snap,       \* the metadata snapshot the caller holds
    batch,      \* the running copy_files_with_path / move_files_with_path call
    disk,       \* what the last check_disk_space call gave back
    norm,       \* the path string being normalized and what came of it
    pc          \* the caller's position

vars == <<platform, pywin32, fs, pre, last, snap, batch, disk, norm, pc>>

---------------------------------------------------------------------------
(* Paths.  A path is a sequence of names below the root <<>>.  The name    *)
(* "R" is a file name that contains an attribute-flag letter.              *)

Names == {"a", "R"}

Root == <<>>

Top == {<<n>> : n \in Names}

Sub == {<<n, m>> : n \in Names, m \in Names}

Paths == Top \cup Sub

Name(p) == p[Len(p)]

Parent(p) == SubSeq(p, 1, Len(p) - 1)

Join(d, n) == Append(d, n)

\* The ancestors of p that are not the root, p included, shortest first.
Prefixes(p) == {SubSeq(p, 1, k) : k \in 1..Len(p)}

---------------------------------------------------------------------------
(* Time.  A file's timestamps are kept in nanoseconds (one nanosecond is   *)
(* NsUnit units); stat reports them as floats (the float grid is FloatUlp  *)
(* units wide), and os.utime floors a float to whole nanoseconds.          *)

NsUnit == 3

FloatUlp == 8

\* st_mtime / st_atime: the nanosecond value rounded to the nearest float.
ToFloat(t) == ((t + FloatUlp \div 2) \div FloatUlp) * FloatUlp

\* os.utime(path, (atime, mtime)) with floats: floor to whole nanoseconds.
FloatToNs(f) == (f \div NsUnit) * NsUnit

\* The clock value given to whatever is created or rewritten during a call.
Now == 10 * NsUnit

---------------------------------------------------------------------------
(* Nodes.                                                                  *)

FlagLetters == <<"A", "R", "H", "S">>

Flags == {FlagLetters[i] : i \in 1..Len(FlagLetters)}

Absent ==
    [kind |-> "none", content |-> 0, perm |-> 0, mtime |-> 0, atime |-> 0,
     ctime |-> 0, owner |-> "none", attrs |-> {}, target |-> <<>>]

NewDir ==
    [kind |-> "dir", content |-> 0, perm |-> 493, mtime |-> Now, atime |-> Now,
     ctime |-> Now, owner |-> "user", attrs |-> {}, target |-> <<>>]

\* A symbolic link holding the path t.
NewLink(t) ==
    [kind |-> "link", content |-> 0, perm |-> 511, mtime |-> Now, atime |-> Now,
     ctime |-> Now, owner |-> "user", attrs |-> {}, target |-> t]

\* lstat: the kind of the directory entry itself.
Kind(f, p) == IF p = Root THEN "dir" ELSE IF p \in Paths THEN f[p].kind ELSE "none"

\* No path: what a name resolves to when a component is missing from the
\* modelled tree or the links form a loop.
NoPath == <<"?">>

\* The path a name resolves to, following the symbolic links on the way and
\* at the end (at most n of them).
RECURSIVE RealPath(_, _, _)
RealPath(f, p, n) ==
    IF p = Root THEN Root
    ELSE LET par == RealPath(f, Parent(p), n)
             q == par \o <<Name(p)>>
         IN  IF par = NoPath \/ q \notin Paths THEN NoPath
             ELSE IF f[q].kind = "link"
             THEN IF n = 0 THEN NoPath ELSE RealPath(f, f[q].target, n - 1)
             ELSE q

Resolve(f, p) == RealPath(f, p, Cardinality(Paths))

\* The directory entry a name stands for: its parent resolved, the last
\* component not.
Entry(f, p) ==
    IF p = Root THEN Root
    ELSE LET par == Resolve(f, Parent(p))
         IN  IF par = NoPath \/ par \o <<Name(p)>> \notin Paths THEN NoPath
             ELSE par \o <<Name(p)>>

\* Path.is_symlink()
IsSymlink(f, p) == Kind(f, Entry(f, p)) = "link"

\* Path.exists(), Path.is_file(), Path.is_dir(): all follow symbolic links.
Exists(f, p) == Kind(f, Resolve(f, p)) # "none"

IsFile(f, p) == Kind(f, Resolve(f, p)) = "file"

IsDir(f, p) == Kind(f, Resolve(f, p)) = "dir"

\* Every existing node lies in a real directory.
WellFormed(f) == \A p \in Paths : Kind(f, p) # "none" => Kind(f, Parent(p)) = "dir"

\* The paths whose node differs between two filesystems.
Changed(f, g) == {p \in Paths : f[p] # g[p]}

\* st_mode: the type bits plus the permission bits.  On Windows the
\* permission bits are derived from the read-only attribute.
StatMode(plat, n) ==
    (IF n.kind = "dir" THEN 16384 ELSE 32768)
    + (IF plat = "Windows"
       THEN (IF "R" \in n.attrs THEN 292 ELSE 438)
       ELSE n.perm)

---------------------------------------------------------------------------
(* Outcomes and traces.  An event is one platform call and how it ended.   *)

Ev(call, arg, res) == [call |-> call, arg |-> arg, res |-> res, depth |-> 0]

\* The trace of a nested public call, as part of its caller's trace.
Nest(tr) == [i \in 1..Len(tr) |-> [tr[i] EXCEPT !.depth = @ + 1]]

OkFail(b) == IF b THEN "ok" ELSE "fail"

Out(f, ret, tr) == [fs |-> f, ret |-> ret, trace |-> tr]

\* Whether an event of this call, with this result, occurs in a trace.
Has(tr, call, res) == \E i \in 1..Len(tr) : tr[i].call = call /\ tr[i].res = res

Called(tr, call) == \E i \in 1..Len(tr) : tr[i].call = call

\* The same, among the events of the public call itself (not of a nested one).
Has0(tr, call, res) ==
    \E i \in 1..Len(tr) : tr[i].call = call /\ tr[i].res = res /\ tr[i].depth = 0

Called0(tr, call) == \E i \in 1..Len(tr) : tr[i].call = call /\ tr[i].depth = 0

---------------------------------------------------------------------------
(* Metadata snapshots: the dict collect_file_metadata builds.  keys is the *)
(* set of keys present; wkeys the keys of the nested 'windows' dict.  A    *)
(* captured `attrib` line is kept as the set of flag letters that occur    *)
(* anywhere in it (the code only ever asks whether a letter occurs).       *)

EmptyMd ==
    [keys |-> {}, mode |-> 0, modified |-> 0, accessed |-> 0, created |-> 0,
     owner |-> "none", wkeys |-> {}, attributes |-> {}, attrib_output |-> {}]

\* The output of `attrib <path>`: the flags that are set, then the path.
AttribLine(n, p) == n.attrs \cup {c \in Flags : \E i \in 1..Len(p) : p[i] = c}

\* _collect_windows_metadata: the nested dict, as [wkeys, attributes, attrib_output]
CollectWindowsMetadata(plat, pw, f, p) ==
    LET none == [wkeys |-> {}, attributes |-> {}, attrib_output |-> {}]
    IN  IF plat # "Windows" THEN {none}
        ELSE IF pw
        THEN {[wkeys |-> {"attributes"}, attributes |-> f[p].attrs, attrib_output |-> {}],
              none}
        ELSE {[wkeys |-> {"attrib_output"}, attributes |-> {},
               attrib_output |-> AttribLine(f[p], p)],
              none}

\* collect_file_metadata with a platform branch that lets its failure reach
\* the outer handler: the dict built so far is what comes back, and nothing
\* is stored under 'windows'.
CollectOutcomesBranchFatal(plat, pw, f, p) ==
    IF ~Exists(f, p) \/ p = Root
    THEN {[md |-> EmptyMd, trace |-> <<Ev("stat", "", "fail")>>]}
    ELSE LET n == f[p]
         IN  {[md |-> EmptyMd, trace |-> <<Ev("stat", "", "fail")>>]} \cup
             (IF plat = "Windows"
              THEN {[md |-> EmptyMd,
                     trace |-> <<Ev("stat", "", "ok"),
                                 Ev(IF pw THEN "GetFileAttributes" ELSE "attrib", "",
                                    OkFail(w.wkeys # {}))>>]
                        : w \in CollectWindowsMetadata(plat, pw, f, p)}
              ELSE {[md |-> [EmptyMd EXCEPT !.keys = {"mode", "timestamps", "unix"},
                                            !.mode = StatMode(plat, n),
                                            !.modified = ToFloat(n.mtime),
                                            !.accessed = ToFloat(n.atime),
                                            !.created = ToFloat(n.ctime),
                                            !.owner = n.owner],
                     trace |-> <<Ev("stat", "", "ok")>>]})

\* collect_file_metadata: the snapshots the call can return, each with the
\* reads that produced it.  stat() raising leaves the dict empty; a failed
\* read of the Windows attributes leaves metadata['windows'] empty.
CollectOutcomes(plat, pw, f, p) ==
    IF ~Exists(f, p) \/ p = Root
    THEN {[md |-> EmptyMd, trace |-> <<Ev("stat", "", "fail")>>]}
    ELSE LET n == f[p]
             base == [EmptyMd EXCEPT !.keys = {"mode", "timestamps"},
                                     !.mode = StatMode(plat, n),
                                     !.modified = ToFloat(n.mtime),
                                     !.accessed = ToFloat(n.atime),
                                     !.created = ToFloat(n.ctime)]
         IN  {[md |-> EmptyMd, trace |-> <<Ev("stat", "", "fail")>>]} \cup
             (IF plat = "Windows"
              THEN {[md |-> [base EXCEPT !.keys = @ \cup {"windows"},
                                         !.wkeys = w.wkeys,
                                         !.attributes = w.attributes,
                                         !.attrib_output = w.attrib_output],
                     trace |-> <<Ev("stat", "", "ok"),
                                 Ev(IF pw THEN "GetFileAttributes" ELSE "attrib", "",
                                    OkFail(w.wkeys # {}))>>]
                        : w \in CollectWindowsMetadata(plat, pw, f, p)}
              ELSE {[md |-> [base EXCEPT !.keys = @ \cup {"unix"}, !.owner = n.owner],
                     trace |-> <<Ev("stat", "", "ok")>>]})

\* collect_file_metadata: the dict alone.
CollectFileMetadata(plat, pw, f, p) == {o.md : o \in CollectOutcomes(plat, pw, f, p)}

---------------------------------------------------------------------------
(* The platform calls that write metadata.  Each returns the set of        *)
(* [fs, ok] it can end in; a call on a missing path always fails.          *)

\* os.chmod: POSIX keeps the permission bits; Windows only keeps whether the
\* owner-write bit is set, as the read-only attribute.
Chmod(plat, f, p, mode) ==
    IF ~Exists(f, p) \/ p = Root THEN {[fs |-> f, ok |-> FALSE]}
    ELSE {[fs |-> [f EXCEPT ![p].perm = IF plat = "Windows" THEN @ ELSE mode % 4096,
                            ![p].attrs = IF plat # "Windows" THEN @
                                         ELSE IF (mode \div 128) % 2 = 1
                                              THEN @ \ {"R"} ELSE @ \cup {"R"},
                            ![p].ctime = Now],
           ok |-> TRUE],
          [fs |-> f, ok |-> FALSE]}

\* os.utime(path, (accessed, modified))
Utime(f, p, accessed, modified) ==
    IF ~Exists(f, p) \/ p = Root THEN {[fs |-> f, ok |-> FALSE]}
    ELSE {[fs |-> [f EXCEPT ![p].atime = FloatToNs(accessed),
                            ![p].mtime = FloatToNs(modified),
                            ![p].ctime = Now],
           ok |-> TRUE],
          [fs |-> f, ok |-> FALSE]}

\* os.chown(path, uid, gid)
Chown(f, p, owner) ==
    IF ~Exists(f, p) \/ p = Root THEN {[fs |-> f, ok |-> FALSE]}
    ELSE {[fs |-> [f EXCEPT ![p].owner = owner, ![p].ctime = Now], ok |-> TRUE],
          [fs |-> f, ok |-> FALSE]}

\* win32api.SetFileAttributes(path, attributes)
SetFileAttributes(f, p, attrs) ==
    IF ~Exists(f, p) \/ p = Root THEN {[fs |-> f, ok |-> FALSE]}
    ELSE {[fs |-> [f EXCEPT ![p].attrs = attrs], ok |-> TRUE],
          [fs |-> f, ok |-> FALSE]}

\* subprocess.run(['attrib', '+X', path]): exit status 0, a non-zero exit
\* status, or the command cannot be started (an exception).
AttribPlus(f, p, flag) ==
    (IF Exists(f, p) /\ p # Root
     THEN {[fs |-> [f EXCEPT ![p].attrs = @ \cup {flag}], res |-> "ok"]}
     ELSE {})
    \cup {[fs |-> f, res |-> "exit1"], [fs |-> f, res |-> "raise"]}

---------------------------------------------------------------------------
(* Applying a snapshot.                                                    *)

\* _apply_unix_metadata
ApplyUnixMetadata(plat, f, p, md) ==
    IF plat = "Windows" THEN {Out(f, FALSE, <<>>)}
    ELSE {Out(r.fs, r.ok, <<Ev("chown", "", OkFail(r.ok))>>) : r \in Chown(f, p, md.owner)}

\* The `attrib` fallback of _apply_windows_metadata, from flag letter i on: a
\* letter that occurs in the captured line is set with `attrib +X`, whose exit
\* status is not looked at; an exception ends the function with False.
RECURSIVE AttribFallback(_, _, _, _, _)
AttribFallback(f, p, line, i, tr) ==
    IF i > Len(FlagLetters) THEN {Out(f, TRUE, tr)}
    ELSE IF FlagLetters[i] \notin line THEN AttribFallback(f, p, line, i + 1, tr)
    ELSE UNION {
            IF r.res = "raise"
            THEN {Out(r.fs, FALSE, Append(tr, Ev("attrib", FlagLetters[i], r.res)))}
            ELSE AttribFallback(r.fs, p, line, i + 1,
                                Append(tr, Ev("attrib", FlagLetters[i], r.res)))
            : r \in AttribPlus(f, p, FlagLetters[i])}

\* _apply_windows_metadata
ApplyWindowsMetadata(plat, pw, f, p, md) ==
    IF plat # "Windows" THEN {Out(f, FALSE, <<>>)}
    ELSE IF pw
    THEN IF "attributes" \in md.wkeys
         THEN {Out(r.fs, r.ok, <<Ev("setattr", "", OkFail(r.ok))>>)
                  : r \in SetFileAttributes(f, p, md.attributes)}
         ELSE {Out(f, TRUE, <<>>)}
    ELSE IF "attrib_output" \in md.wkeys
         THEN AttribFallback(f, p, md.attrib_output, 1, <<>>)
         ELSE {Out(f, TRUE, <<>>)}

\* The platform-specific step of apply_file_metadata, `success and _apply_...()`:
\* the right operand is evaluated only when success is still True.
ApplyPlatformStep(plat, pw, a, p, md) ==
    LET sub == IF plat = "Windows" /\ "windows" \in md.keys
               THEN ApplyWindowsMetadata(plat, pw, a.fs, p, md)
               ELSE IF plat # "Windows" /\ "unix" \in md.keys
               THEN ApplyUnixMetadata(plat, a.fs, p, md)
               ELSE {}
    IN  IF sub = {} \/ ~a.ret THEN {a}
        ELSE {Out(w.fs, a.ret /\ w.ret, a.trace \o w.trace) : w \in sub}

\* apply_file_metadata: mode, then timestamps, then the platform-specific part.
ApplyFileMetadata(plat, pw, f, p, md) ==
    LET s1 == IF "mode" \in md.keys
              THEN {Out(r.fs, r.ok, <<Ev("chmod", "", OkFail(r.ok))>>)
                       : r \in Chmod(plat, f, p, md.mode)}
              ELSE {Out(f, TRUE, <<>>)}
        s2 == UNION {
                IF "timestamps" \in md.keys
                THEN {Out(r.fs, a.ret /\ r.ok,
                          Append(a.trace, Ev("utime", "", OkFail(r.ok))))
                         : r \in Utime(a.fs, p, md.accessed, md.modified)}
                ELSE {a}
                : a \in s1}
    IN  UNION {ApplyPlatformStep(plat, pw, a, p, md) : a \in s2}

---------------------------------------------------------------------------
(* The platform calls that move data.                                      *)

\* Path.mkdir(parents=True, exist_ok=True): fails when a component exists and
\* is no directory, and may fail (permissions) when it has to create one.
MkdirParents(f, d) ==
    IF IsDir(f, d) THEN {[fs |-> f, ok |-> TRUE]}
    ELSE IF \E q \in Prefixes(d) : Kind(f, q) # "none" /\ ~IsDir(f, q)
    THEN {[fs |-> f, ok |-> FALSE]}
    ELSE {[fs |-> [q \in Paths |-> IF q \in Prefixes(d) /\ Kind(f, q) = "none"
                                    THEN NewDir ELSE f[q]],
           ok |-> TRUE],
          [fs |-> f, ok |-> FALSE]}

\* The node a copy of src leaves at a path that held old: the data, and the
\* metadata shutil.copystat carries over (mode, access and modification time).
CopiedNode(plat, src, old) ==
    [kind |-> "file", content |-> src.content,
     perm |-> src.perm, mtime |-> src.mtime, atime |-> src.atime, ctime |-> Now,
     owner |-> IF old.kind = "file" THEN old.owner ELSE "user",
     attrs |-> IF plat = "Windows"
               THEN ((IF old.kind = "file" THEN old.attrs ELSE {}) \ {"R"})
                    \cup {"A"} \cup (src.attrs \cap {"R"})
               ELSE old.attrs,
     target |-> <<>>]

\* A destination opened for writing and left before the data was written.
TruncatedNode(plat, old) ==
    [kind |-> "file", content |-> 0,
     perm |-> IF old.kind = "file" THEN old.perm ELSE 420,
     mtime |-> Now, atime |-> IF old.kind = "file" THEN old.atime ELSE Now,
     ctime |-> Now,
     owner |-> IF old.kind = "file" THEN old.owner ELSE "user",
     attrs |-> IF old.kind = "file" THEN old.attrs
               ELSE IF plat = "Windows" THEN {"A"} ELSE {},
     target |-> <<>>]

\* Where shutil.copy2 / shutil.move put the file: inside dst when dst is a
\* directory.
RealDest(f, s, d) == IF IsDir(f, d) THEN Join(d, Name(s)) ELSE d

\* shutil.copy2(src, dst): done, failed before writing, or failed while writing.
Copy2(plat, f, s, d) ==
    LET real == RealDest(f, s, d)
    IN  IF real = s \/ real \notin Paths \/ IsDir(f, real) \/ ~IsDir(f, Parent(real))
           \/ ~IsFile(f, s)
        THEN {[fs |-> f, ok |-> FALSE]}
        ELSE {[fs |-> [f EXCEPT ![real] = CopiedNode(plat, f[s], f[real])], ok |-> TRUE],
              [fs |-> f, ok |-> FALSE],
              [fs |-> [f EXCEPT ![real] = TruncatedNode(plat, f[real])], ok |-> FALSE]}

\* _copy_with_robocopy: `robocopy <source dir> <dest dir> <source name>` writes
\* the file under the SOURCE's name into the destination's directory; the
\* function then reports whether the destination path exists.  did tells
\* what robocopy itself did: "notrun", "nothing" or "copied".
CopyWithRobocopy(plat, f, s, d) ==
    IF plat # "Windows" THEN {[fs |-> f, ret |-> FALSE, did |-> "notrun"]}
    ELSE LET target == Join(Parent(d), Name(s))
             copied == [f EXCEPT ![target] =
                            [kind |-> "file", content |-> f[s].content,
                             perm |-> f[s].perm, mtime |-> f[s].mtime,
                             atime |-> f[target].atime, ctime |-> Now,
                             owner |-> IF f[target].kind = "file"
                                       THEN f[target].owner ELSE "user",
                             attrs |-> f[s].attrs, target |-> <<>>]]
         IN  \* subprocess.run raised: robocopy could not be started
             {[fs |-> f, ret |-> FALSE, did |-> "notrun"]}
             \* robocopy ran and copied nothing
             \cup {[fs |-> f, ret |-> Exists(f, d), did |-> "nothing"]}
             \* robocopy ran and copied
             \cup (IF target # s /\ target \in Paths /\ ~IsDir(f, target)
                      /\ IsDir(f, Parent(d))
                   THEN {[fs |-> copied, ret |-> Exists(copied, d), did |-> "copied"]}
                   ELSE {})

\* shutil.move(src, dst) of a regular file: res is "ok", or the OSError
\* raised: "EXDEV" or "error" (any other).
ShutilMove(plat, f, s, d) ==
    LET real == RealDest(f, s, d)
    IN  IF IsDir(f, d) /\ (Exists(f, real) \/ real \notin Paths)
        THEN {[fs |-> f, res |-> "error"]}
        ELSE IF real = s
        THEN {[fs |-> f, res |-> "ok"], [fs |-> f, res |-> "error"]}
        ELSE {\* os.rename
              [fs |-> [f EXCEPT ![real] = [f[s] EXCEPT !.ctime = Now], ![s] = Absent],
               res |-> "ok"],
              [fs |-> f, res |-> "EXDEV"],
              [fs |-> f, res |-> "error"],
              \* its own copy-then-unlink fallback, the unlink failing
              [fs |-> [f EXCEPT ![real] = CopiedNode(plat, f[s], f[real])],
               res |-> "error"]}

\* os.unlink
Unlink(f, p) ==
    IF ~IsFile(f, p) THEN {[fs |-> f, ok |-> FALSE]}
    ELSE {[fs |-> [f EXCEPT ![p] = Absent], ok |-> TRUE], [fs |-> f, ok |-> FALSE]}

---------------------------------------------------------------------------
(* copy_file and move_file.                                                *)

\* The copy step of copy_file: robocopy, then shutil.copy2 when robocopy
\* reported failure (Windows with preserve_attrs), else shutil.copy2.
\* Returns [fs, ok, trace]; ok = FALSE is an exception out of shutil.copy2.
CopyStep(plat, f, s, d, preserve) ==
    LET viaCopy2(g, tr) ==
            {[fs |-> c.fs, ok |-> c.ok, trace |-> Append(tr, Ev("copy2", "", OkFail(c.ok)))]
                : c \in Copy2(plat, g, s, d)}
    IN  IF plat = "Windows" /\ preserve
        THEN UNION {
                IF r.ret
                THEN {[fs |-> r.fs, ok |-> TRUE, trace |-> <<Ev("robocopy", r.did, "ok")>>]}
                ELSE viaCopy2(r.fs, <<Ev("robocopy", r.did, "fail")>>)
                : r \in CopyWithRobocopy(plat, f, s, d)}
        ELSE viaCopy2(f, <<>>)

\* CopyFinish, were copy_file to return what apply_file_metadata returned.
CopyFinishStrict(plat, pw, c, d, preserve, md, tr) ==
    IF ~c.ok THEN {Out(c.fs, FALSE, tr \o c.trace)}
    ELSE IF preserve
    THEN {Out(a.fs, a.ret, tr \o c.trace \o <<Ev("apply", "", OkFail(a.ret))>> \o a.trace)
             : a \in ApplyFileMetadata(plat, pw, c.fs, d, md)}
    ELSE {Out(c.fs, TRUE, tr \o c.trace)}

\* The part of copy_file after the copy step: apply the snapshot, return True.
CopyFinish(plat, pw, c, d, preserve, md, tr) ==
    IF ~c.ok THEN {Out(c.fs, FALSE, tr \o c.trace)}
    ELSE IF preserve
    THEN {Out(a.fs, TRUE, tr \o c.trace \o <<Ev("apply", "", OkFail(a.ret))>> \o a.trace)
             : a \in ApplyFileMetadata(plat, pw, c.fs, d, md)}
    ELSE {Out(c.fs, TRUE, tr \o c.trace)}

\* The snapshot taken before the transfer, with the event it leaves.
Capture(plat, pw, f, s, preserve) ==
    IF preserve
    THEN {[md |-> m, trace |-> <<Ev("collect", "", IF m.keys = {} THEN "fail" ELSE "ok")>>]
             : m \in CollectFileMetadata(plat, pw, f, s)}
    ELSE {[md |-> EmptyMd, trace |-> <<>>]}

\* Preconditions, without the check of an existing destination.
PreconditionsOverwriteAlways(f, s, d, overwrite) ==
    /\ Exists(f, s)
    /\ IsFile(f, s)

\* Preconditions, without the check that the source is a regular file.
PreconditionsAnySource(f, s, d, overwrite) ==
    ~(Exists(f, d) /\ ~overwrite)

\* Whether the precondition checks of copy_file / move_file let the call go on.
Preconditions(f, s, d, overwrite) ==
    /\ Exists(f, s)
    /\ IsFile(f, s)
    /\ ~(Exists(f, d) /\ ~overwrite)

\* copy_file(source, destination, preserve_attrs, overwrite)
CopyFile(plat, pw, f, s, d, preserve, overwrite) ==
    IF ~Preconditions(f, s, d, overwrite) THEN {Out(f, FALSE, <<>>)}
    ELSE UNION {
            IF ~mk.ok THEN {Out(mk.fs, FALSE, <<Ev("mkdir", "", "fail")>>)}
            ELSE UNION {
                    UNION {CopyFinish(plat, pw, c, d, preserve, cap.md,
                                      <<Ev("mkdir", "", "ok")>> \o cap.trace)
                              : c \in CopyStep(plat, mk.fs, s, d, preserve)}
                    : cap \in Capture(plat, pw, mk.fs, s, preserve)}
            : mk \in MkdirParents(f, Parent(d))}

\* MoveStep, were the source unlinked without looking at what copy_file returned.
MoveStepUnlinkAlways(plat, pw, f, s, d, preserve, overwrite) ==
    UNION {
        IF m.res = "ok"
        THEN {[fs |-> m.fs, res |-> "moved", trace |-> <<Ev("move", "", "ok")>>]}
        ELSE IF m.res = "error"
        THEN {[fs |-> m.fs, res |-> "raise", trace |-> <<Ev("move", "", "error")>>]}
        ELSE UNION {
                LET tr == <<Ev("move", "", "EXDEV"), Ev("copy_file", "", OkFail(c.ret))>>
                          \o Nest(c.trace)
                IN  {[fs |-> u.fs,
                      res |-> IF ~u.ok THEN "raise"
                              ELSE IF c.ret THEN "moved" ELSE "notcopied",
                      trace |-> Append(tr, Ev("unlink", "", OkFail(u.ok)))]
                        : u \in Unlink(c.fs, s)}
                : c \in CopyFile(plat, pw, m.fs, s, d, preserve, overwrite)}
        : m \in ShutilMove(plat, f, s, d)}

\* The move step of move_file: shutil.move, and on EXDEV copy_file followed,
\* when it returned True, by os.unlink(source).  Returns [fs, res, trace] with
\* res "moved" (success = True), "notcopied" (success = False) or "raise".
MoveStep(plat, pw, f, s, d, preserve, overwrite) ==
    UNION {
        IF m.res = "ok"
        THEN {[fs |-> m.fs, res |-> "moved", trace |-> <<Ev("move", "", "ok")>>]}
        ELSE IF m.res = "error"
        THEN {[fs |-> m.fs, res |-> "raise", trace |-> <<Ev("move", "", "error")>>]}
        ELSE UNION {
                LET tr == <<Ev("move", "", "EXDEV"), Ev("copy_file", "", OkFail(c.ret))>>
                          \o Nest(c.trace)
                IN  IF c.ret
                    THEN {[fs |-> u.fs, res |-> IF u.ok THEN "moved" ELSE "raise",
                           trace |-> Append(tr, Ev("unlink", "", OkFail(u.ok)))]
                             : u \in Unlink(c.fs, s)}
                    ELSE {[fs |-> c.fs, res |-> "notcopied", trace |-> tr]}
                : c \in CopyFile(plat, pw, m.fs, s, d, preserve, overwrite)}
        : m \in ShutilMove(plat, f, s, d)}

\* The part of move_file after the move step.
MoveFinish(plat, pw, m, d, preserve, md, tr) ==
    IF m.res = "raise" THEN {Out(m.fs, FALSE, tr \o m.trace)}
    ELSE IF preserve /\ m.res = "moved"
    THEN {Out(a.fs, TRUE, tr \o m.trace \o <<Ev("apply", "", OkFail(a.ret))>> \o a.trace)
             : a \in ApplyFileMetadata(plat, pw, m.fs, d, md)}
    ELSE {Out(m.fs, m.res = "moved", tr \o m.trace)}

\* move_file(source, destination, preserve_attrs, overwrite)
MoveFile(plat, pw, f, s, d, preserve, overwrite) ==
    IF ~Preconditions(f, s, d, overwrite) THEN {Out(f, FALSE, <<>>)}
    ELSE UNION {
            IF ~mk.ok THEN {Out(mk.fs, FALSE, <<Ev("mkdir", "", "fail")>>)}
            ELSE UNION {
                    UNION {MoveFinish(plat, pw, m, d, preserve, cap.md,
                                      <<Ev("mkdir", "", "ok")>> \o cap.trace)
                              : m \in MoveStep(plat, pw, mk.fs, s, d, preserve, overwrite)}
                    : cap \in Capture(plat, pw, mk.fs, s, preserve)}
            : mk \in MkdirParents(f, Parent(d))}

---------------------------------------------------------------------------
(* The state machine: a filesystem and one caller.                         *)

\* The number of distinct file contents the initial filesystems draw from.
MaxContent == 2

\* The initial file with content c; files of different content differ in
\* their metadata too.
InitFile(c) ==
    [kind |-> "file", content |-> c,
     perm |-> IF c % 2 = 1 THEN 420 ELSE 384,
     mtime |-> NsUnit * (2 * c + 1), atime |-> NsUnit * (2 * c + 2),
     ctime |-> NsUnit * (2 * c + 1),
     owner |-> IF c % 2 = 1 THEN "user" ELSE "root",
     attrs |-> IF c % 2 = 1 THEN {"A"} ELSE {"R"},
     target |-> <<>>]

InitFiles == {InitFile(c) : c \in 1..MaxContent}

\* The initial filesystems: <<"a">> is missing or a file; <<"R">> is missing,
\* a file, or a directory of files.
InitFs ==
    {f \in [Paths -> {Absent, NewDir} \cup InitFiles] :
        /\ WellFormed(f)
        /\ ~IsDir(f, <<"a">>)
        /\ \A p \in Sub : ~IsDir(f, p)}

NoCall ==
    [op |-> "none", src |-> Root, dst |-> Root, preserve |-> FALSE,
     overwrite |-> FALSE, ret |-> FALSE, raised |-> FALSE, force |-> FALSE, recursive |-> FALSE, trace |-> <<>>,
     md |-> EmptyMd, paths |-> <<>>, follow |-> FALSE, total |-> 0]

\* No batch call is running.
NoBatch ==
    [op |-> "none", sources |-> <<>>, sbase |-> Root, dbase |-> Root,
     style |-> "flat", include_base |-> FALSE, preserve |-> FALSE,
     overwrite |-> FALSE, i |-> 0,
     results |-> [p \in Paths |-> [set |-> FALSE, ok |-> FALSE, dest |-> Root]],
     transferred |-> {}]

\* No path string was given.
NoNorm ==
    [form |-> "none", drive |-> "", rest |-> <<>>, trail |-> FALSE,
     input |-> <<>>, output |-> <<>>, twin |-> <<>>, done |-> FALSE,
     again |-> <<>>, redone |-> FALSE]

\* No check_disk_space call was made.
NoDisk ==
    [has_space |-> FALSE, required |-> 0, available |-> 0, message |-> "",
     raised |-> "none", err_required |-> 0, err_available |-> 0,
     err_shortfall |-> 0, checked |-> Root, readable |-> FALSE, free |-> 0,
     required_bytes |-> 0, margin |-> 0, raise_on_insufficient |-> FALSE,
     path |-> Root, anchor |-> "root", anchored |-> TRUE]

Init ==
    /\ platform \in {"Linux", "Windows"}
    /\ pywin32 \in BOOLEAN
    /\ platform = "Linux" => ~pywin32
    /\ fs \in InitFs
    /\ pre = fs
    /\ last = NoCall
    /\ snap = EmptyMd
    /\ batch = NoBatch
    /\ disk = NoDisk
    /\ norm = NoNorm
    /\ pc = "idle"

Returned(op, s, d, preserve, overwrite, r) ==
    [op |-> op, src |-> s, dst |-> d, preserve |-> preserve, overwrite |-> overwrite,
     ret |-> r.ret, raised |-> FALSE, trace |-> r.trace, md |-> EmptyMd]

CopyFileCall ==
    /\ pc = "idle"
    /\ \E s \in Paths, d \in Paths, preserve \in BOOLEAN, overwrite \in BOOLEAN :
         \E r \in CopyFile(platform, pywin32, fs, s, d, preserve, overwrite) :
            /\ fs' = r.fs
            /\ last' = Returned("copy_file", s, d, preserve, overwrite, r)
    /\ pre' = fs
    /\ pc' = "done"
    /\ UNCHANGED <<platform, pywin32, disk, norm, snap, batch>>

MoveFileCall ==
    /\ pc = "idle"
    /\ \E s \in Paths, d \in Paths, preserve \in BOOLEAN, overwrite \in BOOLEAN :
         \E r \in MoveFile(platform, pywin32, fs, s, d, preserve, overwrite) :
            /\ fs' = r.fs
            /\ last' = Returned("move_file", s, d, preserve, overwrite, r)
    /\ pre' = fs
    /\ pc' = "done"
    /\ UNCHANGED <<platform, pywin32, disk, norm, snap, batch>>

Next == CopyFileCall \/ MoveFileCall

Spec == Init /\ [][Next]_vars

---------------------------------------------------------------------------
(* The metadata round trip of the tests: collect_file_metadata(A),         *)
(* apply_file_metadata(B, snapshot), then collect_file_metadata(B).  snap  *)
(* keeps the first snapshot; last.md is the dict the last call returned    *)
(* (or was given); last.trace keeps the platform calls of the apply.       *)

CollectCall ==
    /\ pc = "idle"
    /\ \E p \in Paths :
         \E o \in CollectOutcomes(platform, pywin32, fs, p) :
            /\ snap' = o.md
            /\ last' = [NoCall EXCEPT !.op = "collect", !.src = p, !.dst = p,
                                      !.ret = (o.md.keys # {}), !.md = o.md,
                                      !.trace = o.trace]
    /\ pre' = fs
    /\ pc' = "captured"
    /\ UNCHANGED <<platform, pywin32, disk, norm, fs, batch>>

ApplyCall ==
    /\ pc = "captured"
    /\ \E q \in Paths :
         \E r \in ApplyFileMetadata(platform, pywin32, fs, q, snap) :
            /\ fs' = r.fs
            /\ last' = [NoCall EXCEPT !.op = "apply", !.src = last.src, !.dst = q,
                                      !.ret = r.ret, !.trace = r.trace, !.md = snap]
    /\ pre' = fs
    /\ pc' = "applied"
    /\ UNCHANGED <<platform, pywin32, disk, norm, snap, batch>>

RecollectCall ==
    /\ pc = "applied"
    /\ \E m \in CollectFileMetadata(platform, pywin32, fs, last.dst) :
         last' = [last EXCEPT !.op = "recollect", !.ret = (m.keys # {}), !.md = m]
    /\ pre' = fs
    /\ pc' = "recaptured"
    /\ UNCHANGED <<platform, pywin32, disk, norm, fs, snap, batch>>

NextMeta == CollectCall \/ ApplyCall \/ RecollectCall

SpecMeta == Init /\ [][NextMeta]_vars

---------------------------------------------------------------------------
(* Removal and symbolic links: remove_file, remove_directory and           *)
(* create_symlink.                                                         *)

\* Path.unlink() / os.unlink: removes the directory entry itself, a file or
\* a symbolic link; a directory cannot be unlinked.
UnlinkEntry(f, p) ==
    LET e == Entry(f, p)
    IN  IF Kind(f, e) \notin {"file", "link"} THEN {[fs |-> f, ok |-> FALSE]}
        ELSE {[fs |-> [f EXCEPT ![e] = Absent], ok |-> TRUE], [fs |-> f, ok |-> FALSE]}

\* The entries below a directory entry.
Below(e) == {q \in Paths : Len(q) > Len(e) /\ SubSeq(q, 1, Len(e)) = e}

\* shutil.rmtree: refuses a symbolic link; removes a real directory with all
\* below it, or fails having removed nothing or only what is below.
RmTree(f, p) ==
    LET e == Entry(f, p)
    IN  IF Kind(f, e) # "dir" \/ e = Root THEN {[fs |-> f, ok |-> FALSE]}
        ELSE {[fs |-> [q \in Paths |-> IF q = e \/ q \in Below(e) THEN Absent ELSE f[q]],
               ok |-> TRUE],
              [fs |-> f, ok |-> FALSE],
              [fs |-> [q \in Paths |-> IF q \in Below(e) THEN Absent ELSE f[q]],
               ok |-> FALSE]}

\* Path.rmdir(): removes an empty directory; Windows also removes a symbolic
\* link to a directory, POSIX refuses it.
Rmdir(plat, f, p) ==
    LET e == Entry(f, p)
        removed == [fs |-> [f EXCEPT ![e] = Absent], ok |-> TRUE]
    IN  IF e = Root \/ e = NoPath THEN {[fs |-> f, ok |-> FALSE]}
        ELSE IF Kind(f, e) = "dir" /\ \A q \in Below(e) : Kind(f, q) = "none"
        THEN {removed, [fs |-> f, ok |-> FALSE]}
        ELSE IF Kind(f, e) = "link" /\ IsDir(f, p) /\ plat = "Windows"
        THEN {removed, [fs |-> f, ok |-> FALSE]}
        ELSE {[fs |-> f, ok |-> FALSE]}

\* remove_file
RemoveFile(plat, f, p, force) ==
    IF ~Exists(f, p) THEN {Out(f, TRUE, <<>>)}
    ELSE IF ~IsFile(f, p) THEN {Out(f, FALSE, <<>>)}
    ELSE {Out(u.fs, u.ok \/ force, <<Ev("unlink", "", OkFail(u.ok))>>)
             : u \in UnlinkEntry(f, p)}

\* remove_directory
RemoveDirectory(plat, f, p, recursive, force) ==
    IF ~Exists(f, p) THEN {Out(f, TRUE, <<>>)}
    ELSE IF ~IsDir(f, p) THEN {Out(f, FALSE, <<>>)}
    ELSE IF recursive
    THEN {Out(u.fs, u.ok \/ force, <<Ev("rmtree", "", OkFail(u.ok))>>) : u \in RmTree(f, p)}
    ELSE {Out(u.fs, u.ok \/ force, <<Ev("rmdir", "", OkFail(u.ok))>>)
             : u \in Rmdir(plat, f, p)}

\* os.symlink(target, link): a new link entry holding the target path as
\* given; fails when the entry exists or its directory does not.
Symlink(f, t, l) ==
    LET e == Entry(f, l)
    IN  IF e = NoPath \/ e = Root \/ Kind(f, e) # "none" \/ ~IsDir(f, Parent(l))
        THEN {[fs |-> f, ok |-> FALSE]}
        ELSE {[fs |-> [f EXCEPT ![e] = NewLink(t)], ok |-> TRUE], [fs |-> f, ok |-> FALSE]}

\* The link made by something other than os.symlink (the helper library, the
\* mklink command), when it can be made.
LinkMade(f, t, l) == {u.fs : u \in {v \in Symlink(f, t, l) : v.ok}}

\* Method 3 of _create_windows_symlink: `cmd /c mklink`.
MklinkStep(f, t, l, tr) ==
    {Out(g, TRUE, tr \o <<Ev("mklink", "", "ok")>>) : g \in LinkMade(f, t, l)}
    \cup {Out(f, FALSE, tr \o <<Ev("mklink", "", r)>>) : r \in {"exit1", "raise"}}

\* Method 2 with a helper whose absence, exception or falsy result ends the
\* call.
HelperStepFatal(f, t, l, tr) ==
    {Out(g, TRUE, tr \o <<Ev("dazzlelink", "", "ok")>>) : g \in LinkMade(f, t, l)}
    \cup {Out(f, FALSE, tr \o <<Ev("dazzlelink", "", r)>>)
              : r \in {"missing", "raise", "falsy"}}

\* Method 2: the dazzlelink helper, when it can be imported.
HelperStep(f, t, l, tr) ==
    {Out(g, TRUE, tr \o <<Ev("dazzlelink", "", "ok")>>) : g \in LinkMade(f, t, l)}
    \cup UNION {MklinkStep(f, t, l, tr \o <<Ev("dazzlelink", "", r)>>)
                   : r \in {"missing", "raise", "falsy"}}

\* _create_windows_symlink: os.symlink, then the helper, then mklink.
CreateWindowsSymlink(f, t, l) ==
    UNION {IF u.ok THEN {Out(u.fs, TRUE, <<Ev("os.symlink", "", "ok")>>)}
           ELSE HelperStep(u.fs, t, l, <<Ev("os.symlink", "", "fail")>>)
              : u \in Symlink(f, t, l)}

\* The last part of create_symlink: parent directories, then the link.
SymlinkCreate(plat, f, t, l, tr) ==
    UNION {IF ~m.ok THEN {Out(m.fs, FALSE, tr \o <<Ev("mkdir", "", "fail")>>)}
           ELSE LET tr2 == tr \o <<Ev("mkdir", "", "ok")>>
                IN  IF plat # "Windows"
                    THEN {Out(u.fs, u.ok, tr2 \o <<Ev("os.symlink", "", OkFail(u.ok))>>)
                             : u \in Symlink(m.fs, t, l)}
                    ELSE {Out(w.fs, w.ret, tr2 \o w.trace)
                             : w \in CreateWindowsSymlink(m.fs, t, l)}
              : m \in MkdirParents(f, Parent(l))}

\* The removal create_symlink makes of what is at the link path: rmtree
\* for a real directory, unlink for a file or a symbolic link.
RemoveExisting(f, l) ==
    IF IsDir(f, l) /\ ~IsSymlink(f, l)
    THEN {Out(u.fs, u.ok, <<Ev("rmtree", "", OkFail(u.ok))>>) : u \in RmTree(f, l)}
    ELSE {Out(u.fs, u.ok, <<Ev("unlink", "", OkFail(u.ok))>>) : u \in UnlinkEntry(f, l)}

\* What follows the removal, with a failed removal passed over.
AfterRemovalAnyway(plat, r, t, l) == SymlinkCreate(plat, r.fs, t, l, r.trace)

\* What follows the removal: a failed removal ends the call.
AfterRemoval(plat, r, t, l) ==
    IF ~r.ret THEN {Out(r.fs, FALSE, r.trace)}
    ELSE SymlinkCreate(plat, r.fs, t, l, r.trace)

\* create_symlink without the `if not force` return.
CreateSymlinkForceAlways(plat, f, t, l, force) ==
    IF Exists(f, l) \/ IsSymlink(f, l)
    THEN UNION {AfterRemoval(plat, r, t, l) : r \in RemoveExisting(f, l)}
    ELSE SymlinkCreate(plat, f, t, l, <<>>)

\* create_symlink.  target_is_directory only selects the type of link the
\* Windows methods ask for, which the filesystem here does not distinguish.
CreateSymlink(plat, f, t, l, force) ==
    IF Exists(f, l) \/ IsSymlink(f, l)
    THEN IF ~force THEN {Out(f, FALSE, <<>>)}
         ELSE UNION {AfterRemoval(plat, r, t, l) : r \in RemoveExisting(f, l)}
    ELSE SymlinkCreate(plat, f, t, l, <<>>)

\* The filesystems the removal and link calls start from: <<"R">> missing, a
\* file or a directory; <<"a">> missing, a file, a directory, or a symbolic
\* link to <<"R">> or to <<"R", "a">>.
InitTreeFs ==
    {f \in {[p \in Paths |-> IF p = <<"R">> THEN r
                             ELSE IF p = <<"R", "a">> THEN ra
                             ELSE IF p = <<"a">> THEN a
                             ELSE IF p = <<"a", "a">> THEN aa
                             ELSE Absent]
               : r \in {Absent, InitFile(1), NewDir},
                 ra \in {Absent, InitFile(2)},
                 a \in {Absent, InitFile(2), NewDir,
                        NewLink(<<"R">>), NewLink(<<"R", "a">>)},
                 aa \in {Absent, InitFile(1)}} : WellFormed(f)}

InitTree ==
    /\ platform \in {"Linux", "Windows"}
    /\ pywin32 = (platform = "Windows")
    /\ fs \in InitTreeFs
    /\ pre = fs
    /\ last = NoCall
    /\ snap = EmptyMd
    /\ batch = NoBatch
    /\ disk = NoDisk
    /\ norm = NoNorm
    /\ pc = "idle"

CreateSymlinkCall ==
    /\ pc = "idle"
    /\ \E t \in Paths, l \in Paths, force \in BOOLEAN :
         \E r \in CreateSymlink(platform, fs, t, l, force) :
            /\ fs' = r.fs
            /\ last' = [NoCall EXCEPT !.op = "create_symlink", !.src = t, !.dst = l,
                                      !.force = force, !.ret = r.ret,
                                      !.trace = r.trace]
    /\ pre' = fs
    /\ pc' = "done"
    /\ UNCHANGED <<platform, pywin32, disk, norm, snap, batch>>

RemoveFileCall ==
    /\ pc = "idle"
    /\ \E p \in Paths, force \in BOOLEAN :
         \E r \in RemoveFile(platform, fs, p, force) :
            /\ fs' = r.fs
            /\ last' = [NoCall EXCEPT !.op = "remove_file", !.src = p, !.dst = p,
                                      !.force = force, !.ret = r.ret,
                                      !.trace = r.trace]
    /\ pre' = fs
    /\ pc' = "done"
    /\ UNCHANGED <<platform, pywin32, disk, norm, snap, batch>>

RemoveDirectoryCall ==
    /\ pc = "idle"
    /\ \E p \in Paths, recursive \in BOOLEAN, force \in BOOLEAN :
         \E r \in RemoveDirectory(platform, fs, p, recursive, force) :
            /\ fs' = r.fs
            /\ last' = [NoCall EXCEPT !.op = "remove_directory", !.src = p, !.dst = p,
                                      !.force = force, !.recursive = recursive,
                                      !.ret = r.ret, !.trace = r.trace]
    /\ pre' = fs
    /\ pc' = "done"
    /\ UNCHANGED <<platform, pywin32, disk, norm, snap, batch>>

NextTree == CreateSymlinkCall \/ RemoveFileCall \/ RemoveDirectoryCall

SpecTree == InitTree /\ [][NextTree]_vars

---------------------------------------------------------------------------
(* Path normalization (normalize_cross_platform_path).  A path string is   *)
(* the sequence of its characters.                                         *)

LowerLetters == {"c", "d", "m"}

UpperLetters == {"C", "D", "M"}

Letters == LowerLetters \cup UpperLetters

\* A drive letter left in the case it was written in.
UpperCaseKeep(ch) == ch

\* A drive letter changed to the other case.
UpperCaseToggle(ch) ==
    IF ch = "c" THEN "C" ELSE IF ch = "d" THEN "D" ELSE IF ch = "m" THEN "M"
    ELSE IF ch = "C" THEN "c" ELSE IF ch = "D" THEN "d" ELSE IF ch = "M" THEN "m"
    ELSE ch

UpperCase(ch) ==
    IF ch = "c" THEN "C" ELSE IF ch = "d" THEN "D" ELSE IF ch = "m" THEN "M" ELSE ch

LowerCase(ch) ==
    IF ch = "C" THEN "c" ELSE IF ch = "D" THEN "d" ELSE IF ch = "M" THEN "m" ELSE ch

Replace(s, a, b) == [i \in 1..Len(s) |-> IF s[i] = a THEN b ELSE s[i]]

\* /mnt/x or /mnt/x/...
IsWslForm(s) ==
    /\ Len(s) >= 6
    /\ SubSeq(s, 1, 5) = <<"/", "m", "n", "t", "/">>
    /\ s[6] \in Letters
    /\ Len(s) = 6 \/ s[7] = "/"

\* /x or /x/...
IsGitBashForm(s) ==
    /\ Len(s) >= 2
    /\ s[1] = "/" /\ s[2] \in Letters
    /\ Len(s) = 2 \/ s[3] = "/"

\* X:...
IsDriveForm(s) == Len(s) >= 2 /\ s[1] \in Letters /\ s[2] = ":"

\* What follows the drive, toward Windows: nothing for a drive root, else
\* every / rewritten to \.
WindowsRest(r) == IF r = <<>> \/ r = <<"/">> THEN <<>> ELSE Replace(r, "/", "\\")

\* Normalization toward Windows.
ToWindows(s) ==
    IF s = <<>> THEN <<".">>
    ELSE IF IsWslForm(s)
    THEN <<UpperCase(s[6]), ":">> \o WindowsRest(SubSeq(s, 7, Len(s)))
    ELSE IF IsGitBashForm(s)
    THEN <<UpperCase(s[2]), ":">> \o WindowsRest(SubSeq(s, 3, Len(s)))
    ELSE IF IsDriveForm(s)
    THEN <<UpperCase(s[1]), ":">> \o Replace(SubSeq(s, 3, Len(s)), "/", "\\")
    ELSE IF s[1] = "/" THEN s
    ELSE Replace(s, "/", "\\")

\* Normalization toward POSIX.
ToPosix(s) ==
    IF s = <<>> THEN <<".">>
    ELSE IF IsDriveForm(s)
    THEN <<"/", LowerCase(s[1])>> \o Replace(SubSeq(s, 3, Len(s)), "\\", "/")
    ELSE IF s[1] = "/" THEN s
    ELSE Replace(s, "\\", "/")

Normalize(plat, s) == IF plat = "Windows" THEN ToWindows(s) ELSE ToPosix(s)

\* The most segments after the drive or root of a path given.
MaxSegs == 2

\* The segment names of the paths given.
SegNames == {<<"U", "s">>, <<"x">>}

RECURSIVE JoinSegs(_, _)
JoinSegs(segs, sep) ==
    IF segs = <<>> THEN <<>>
    ELSE IF Len(segs) = 1 THEN segs[1]
    ELSE segs[1] \o <<sep>> \o JoinSegs(Tail(segs), sep)

PathForms == {"gitbash", "wsl", "backslash", "forward", "posix", "relative", "empty"}

\* The string of a path written in one of the forms.
Spell(form, drive, rest, trail) ==
    LET sep == IF form = "backslash" THEN "\\" ELSE "/"
        body == JoinSegs(rest, sep)
        tail == IF rest = <<>> THEN (IF trail THEN <<sep>> ELSE <<>>)
                ELSE <<sep>> \o body
    IN  IF form = "gitbash" THEN <<"/", drive>> \o tail
        ELSE IF form = "wsl" THEN <<"/", "m", "n", "t", "/", drive>> \o tail
        ELSE IF form \in {"backslash", "forward"} THEN <<drive, ":">> \o tail
        ELSE IF form = "posix" THEN <<"/", "h", "o">> \o tail
        ELSE IF form = "relative" THEN body
        ELSE <<>>

\* The paths given to the normalization.
PathInputs ==
    {[NoNorm EXCEPT !.form = fm, !.drive = d, !.rest = r, !.trail = t,
                    !.input = Spell(fm, d, r, t)]
        : fm \in PathForms, d \in Letters,
          r \in UNION {[1..n -> SegNames] : n \in 0..MaxSegs}, t \in BOOLEAN}

InitPath ==
    /\ Init
    /\ pywin32 = (platform = "Windows")
    /\ \A p \in Paths : ~Exists(fs, p)

\* The other of the Git-Bash and WSL spellings of a location.
Twin(n) ==
    IF n.form = "gitbash" THEN Spell("wsl", n.drive, n.rest, n.trail)
    ELSE IF n.form = "wsl" THEN Spell("gitbash", n.drive, n.rest, n.trail)
    ELSE n.input

NormalizeCall ==
    /\ pc = "idle"
    /\ \E n \in PathInputs :
         norm' = [n EXCEPT !.output = Normalize(platform, n.input),
                           !.twin = Normalize(platform, Twin(n)),
                           !.done = TRUE]
    /\ last' = [NoCall EXCEPT !.op = "normalize"]
    /\ pc' = "done"
    /\ UNCHANGED <<platform, pywin32, fs, pre, snap, batch, disk>>

\* The result normalized once more.
RenormalizeCall ==
    /\ pc = "done"
    /\ norm.done /\ ~norm.redone
    /\ norm' = [norm EXCEPT !.again = Normalize(platform, norm.output),
                            !.redone = TRUE]
    /\ pc' = "renormalized"
    /\ UNCHANGED <<platform, pywin32, fs, pre, last, snap, batch, disk>>

NextPath == NormalizeCall \/ RenormalizeCall

SpecPath == InitPath /\ [][NextPath]_vars

---------------------------------------------------------------------------
(* Disk space: get_disk_usage and check_disk_space.  Byte counts are       *)
(* integers; safety_margin is a float, given here in halves (0, 0.5, 1.0,  *)
(* ...), values a binary float holds exactly.                              *)

\* The largest byte count (required, free) of a call.
MaxBytes == 12

\* The largest safety margin, in halves.
MaxMarginHalves == 2

\* The bits of a float's mantissa: integers up to 2^MantBits are exact.
MantBits == 3

\* The spacing of the floats around n.
RECURSIVE FloatStep(_)
FloatStep(n) == IF n < 2 ^ MantBits THEN 1 ELSE 2 * FloatStep(n \div 2)

\* The float nearest to the integer n, ties to the even mantissa: what
\* int * float does to its int operand, and to the product.
IntToFloat(n) ==
    LET step == FloatStep(n)
        q == n \div step
        rem == n % step
    IN  IF 2 * rem < step THEN q * step
        ELSE IF 2 * rem > step THEN (q + 1) * step
        ELSE IF q % 2 = 0 THEN q * step ELSE (q + 1) * step

\* margin_bytes = int(required_bytes * safety_margin), the margin h halves:
\* the product is a float (counted here in halves), int() truncates it.
MarginBytes(r, h) == IntToFloat(IntToFloat(r) * h) \div 2

\* The walk up of get_disk_usage: the nearest existing ancestor.
RECURSIVE NearestExisting(_, _)
NearestExisting(f, p) ==
    IF p = Root \/ Exists(f, p) THEN p ELSE NearestExisting(f, Parent(p))

\* get_disk_usage: shutil.disk_usage of that ancestor gives the free bytes,
\* or raises OSError.
GetDiskUsage(f, p) ==
    LET c == NearestExisting(f, p)
    IN  {[ok |-> FALSE, free |-> 0, checked |-> c]}
        \cup {[ok |-> TRUE, free |-> x, checked |-> c] : x \in 0..MaxBytes}

\* check_disk_space that raises whatever raise_on_insufficient says.
CheckDiskSpaceStrict(u, r, h, raise) ==
    LET with_margin == r + MarginBytes(r, h)
        given == [NoDisk EXCEPT !.required_bytes = r, !.margin = h,
                                !.raise_on_insufficient = raise,
                                !.checked = u.checked, !.readable = u.ok,
                                !.free = u.free]
    IN  IF ~u.ok THEN [given EXCEPT !.raised = "OSError"]
        ELSE IF u.free >= with_margin
        THEN [given EXCEPT !.has_space = TRUE, !.required = with_margin,
                           !.available = u.free, !.message = "Sufficient space"]
        ELSE [given EXCEPT !.raised = "InsufficientSpaceError",
                           !.err_required = with_margin,
                           !.err_available = u.free,
                           !.err_shortfall = with_margin - u.free]

\* check_disk_space, given what get_disk_usage did: the tuple returned, or
\* the exception raised with its fields.
CheckDiskSpace(u, r, h, raise) ==
    LET with_margin == r + MarginBytes(r, h)
        given == [NoDisk EXCEPT !.required_bytes = r, !.margin = h,
                                !.raise_on_insufficient = raise,
                                !.checked = u.checked, !.readable = u.ok,
                                !.free = u.free]
    IN  IF ~u.ok
        THEN IF raise THEN [given EXCEPT !.raised = "OSError"]
             ELSE [given EXCEPT !.has_space = FALSE, !.required = r,
                                !.available = 0,
                                !.message = "Cannot check disk space"]
        ELSE IF u.free >= with_margin
        THEN [given EXCEPT !.has_space = TRUE, !.required = with_margin,
                           !.available = u.free, !.message = "Sufficient space"]
        ELSE IF raise
        THEN [given EXCEPT !.raised = "InsufficientSpaceError",
                           !.err_required = with_margin,
                           !.err_available = u.free,
                           !.err_shortfall = with_margin - u.free]
        ELSE [given EXCEPT !.has_space = FALSE, !.required = with_margin,
                           !.available = u.free, !.message = "Insufficient space"]

InitDisk ==
    /\ Init
    /\ platform = "Linux"
    /\ \A p \in Sub : ~Exists(fs, p)

CheckDiskSpaceCall ==
    /\ pc = "idle"
    /\ \E p \in Paths, r \in 0..MaxBytes, h \in 0..MaxMarginHalves, raise \in BOOLEAN :
         \E u \in GetDiskUsage(fs, p) :
            /\ disk' = CheckDiskSpace(u, r, h, raise)
            /\ last' = [NoCall EXCEPT !.op = "check_disk_space", !.dst = p]
    /\ pre' = fs
    /\ pc' = "done"
    /\ UNCHANGED <<platform, pywin32, fs, snap, batch, norm>>

NextDisk == CheckDiskSpaceCall

SpecDisk == InitDisk /\ [][NextDisk]_vars

---------------------------------------------------------------------------
(* calculate_total_size.                                                   *)

\* The longest list of paths handed to calculate_total_size.
MaxList == 2

\* st_size: a file's content stands for its bytes, the number for how many.
StSize(n) == n.content

\* total += ..., over the values of a function.
RECURSIVE SumFun(_)
SumFun(g) ==
    IF DOMAIN g = {} THEN 0
    ELSE LET x == CHOOSE y \in DOMAIN g : TRUE
         IN  g[x] + SumFun([y \in DOMAIN g \ {x} |-> g[y]])

\* os.walk(top, followlinks=follow) over the real directory d with the loop
\* over its files: an entry that is a directory, or a link to one, goes to
\* dirs, and a link is descended into only with followlinks; every other
\* entry goes to files, where a link counts (with its target's size) only
\* with follow_symlinks and a dangling one never (stat raises OSError).
RECURSIVE WalkSize(_, _, _)
WalkSize(f, d, follow) ==
    LET EntrySize(e) ==
            IF e \notin Paths \/ f[e].kind = "none" THEN 0
            ELSE IF f[e].kind = "file" THEN StSize(f[e])
            ELSE IF f[e].kind = "dir" THEN WalkSize(f, e, follow)
            ELSE IF IsDir(f, e)
            THEN (IF follow THEN WalkSize(f, Resolve(f, e), follow) ELSE 0)
            ELSE IF IsFile(f, e) /\ follow THEN StSize(f[Resolve(f, e)])
            ELSE 0
    IN  SumFun([n \in Names |-> EntrySize(Join(d, n))])

\* The body of `for path in paths`: what one listed path adds to total.
\* os.walk lists its top directory whatever followlinks is.
PathSize(f, p, follow) ==
    IF ~Exists(f, p) THEN 0
    ELSE IF IsFile(f, p)
    THEN (IF follow \/ ~IsSymlink(f, p) THEN StSize(f[Resolve(f, p)]) ELSE 0)
    ELSE IF IsDir(f, p) THEN WalkSize(f, Resolve(f, p), follow)
    ELSE 0

\* calculate_total_size(paths, follow_symlinks)
CalculateTotalSize(f, paths, follow) ==
    SumFun([k \in 1..Len(paths) |-> PathSize(f, paths[k], follow)])

\* The filesystems sizes are taken of: files of different sizes, links to a
\* file and to a directory, at the top and inside a directory, none of them
\* leading back into the directory it lies in.
InitSizeFs ==
    {f \in {[p \in Paths |-> IF p = <<"R">> THEN r
                             ELSE IF p = <<"R", "a">> THEN ra
                             ELSE IF p = <<"R", "R">> THEN rr
                             ELSE IF p = <<"a">> THEN a
                             ELSE IF p = <<"a", "a">> THEN aa
                             ELSE Absent]
               : r \in {Absent, InitFile(1), NewDir},
                 ra \in {Absent, InitFile(2)},
                 rr \in {Absent, NewLink(<<"a">>), NewLink(<<"a", "a">>)},
                 a \in {Absent, InitFile(1), NewDir,
                        NewLink(<<"R">>), NewLink(<<"R", "a">>)},
                 aa \in {Absent, InitFile(2)}} :
        /\ WellFormed(f)
        /\ ~(f[<<"a">>].target = <<"R">> /\ f[<<"R", "R">>].target = <<"a">>)}

InitSize ==
    /\ platform = "Linux"
    /\ pywin32 = FALSE
    /\ fs \in InitSizeFs
    /\ pre = fs
    /\ last = NoCall
    /\ snap = EmptyMd
    /\ batch = NoBatch
    /\ disk = NoDisk
    /\ norm = NoNorm
    /\ pc = "idle"

CalculateTotalSizeCall ==
    /\ pc = "idle"
    /\ \E n \in 0..MaxList :
         \E paths \in [1..n -> Paths], follow \in BOOLEAN :
            last' = [NoCall EXCEPT !.op = "calculate_total_size", !.paths = paths,
                                   !.follow = follow,
                                   !.total = CalculateTotalSize(fs, paths, follow)]
    /\ pre' = fs
    /\ pc' = "done"
    /\ UNCHANGED <<platform, pywin32, fs, snap, batch, disk, norm>>

NextSize == CalculateTotalSizeCall

SpecSize == InitSize /\ [][NextSize]_vars

---------------------------------------------------------------------------
(* get_disk_usage, its loop taken one iteration at a time.  A path hangs   *)
(* from an anchor, the end of its chain of parents: the root "/", a drive  *)
(* root (Windows), or "." for a relative path.  The root exists; a drive   *)
(* may be missing and the current directory may have been removed, and     *)
(* then nothing that hangs from them exists.                               *)

Anchors(plat) == IF plat = "Windows" THEN {"drive", "cwd"} ELSE {"root", "cwd"}

\* check_path.exists()
PathExists(f, anchored, p) == anchored /\ Exists(f, p)

InitUsage == InitTree

\* path = Path(path); check_path = path
GetDiskUsageCall ==
    /\ pc = "idle"
    /\ \E p \in Paths \cup {Root}, anchor \in Anchors(platform), anchored \in BOOLEAN :
         /\ anchor = "root" => anchored
         /\ disk' = [NoDisk EXCEPT !.path = p, !.checked = p,
                                   !.anchor = anchor, !.anchored = anchored]
         /\ last' = [NoCall EXCEPT !.op = "get_disk_usage", !.dst = p]
    /\ pre' = fs
    /\ pc' = "walk"
    /\ UNCHANGED <<platform, pywin32, fs, snap, batch, norm>>

\* One iteration of `while not check_path.exists()`.
WalkUp ==
    /\ pc = "walk"
    /\ ~PathExists(fs, disk.anchored, disk.checked)
    /\ LET parent == Parent(disk.checked)
       IN  IF parent = disk.checked
           THEN /\ disk' = [disk EXCEPT !.raised = "OSError"]
                /\ pc' = "done"
           ELSE /\ disk' = [disk EXCEPT !.checked = parent]
                /\ pc' = "walk"
    /\ UNCHANGED <<platform, pywin32, fs, pre, last, snap, batch, norm>>

\* The loop is left: shutil.disk_usage(str(check_path)) gives the numbers or
\* raises OSError.
ShutilDiskUsage ==
    /\ pc = "walk"
    /\ PathExists(fs, disk.anchored, disk.checked)
    /\ \/ \E x \in 0..MaxBytes : disk' = [disk EXCEPT !.readable = TRUE, !.free = x]
       \/ disk' = [disk EXCEPT !.raised = "OSError"]
    /\ pc' = "done"
    /\ UNCHANGED <<platform, pywin32, fs, pre, last, snap, batch, norm>>

NextUsage == GetDiskUsageCall \/ WalkUp \/ ShutilDiskUsage

SpecUsage == InitUsage /\ [][NextUsage]_vars

\* The loop runs as long as it can.
SpecUsageFair == SpecUsage /\ WF_vars(WalkUp) /\ WF_vars(ShutilDiskUsage)

---------------------------------------------------------------------------
(* copy_files_with_path and move_files_with_path.  The call is followed    *)
(* one loop iteration at a time.                                           *)

\* The longest source list given to a batch call.
MaxBatch == 2

IsPrefix(b, p) == Len(b) <= Len(p) /\ SubSeq(p, 1, Len(b)) = b

\* create_dest_path: the source's place below dest_base under the layout
\* "flat" (the basename), "relative" (relative to source_base) or "absolute"
\* (the whole source path), below the source base's own name when asked.
CreateDestPath(s, sbase, dbase, style, include_base) ==
    dbase
    \o (IF include_base /\ sbase # Root THEN <<Name(sbase)>> ELSE <<>>)
    \o (IF style = "flat" THEN <<Name(s)>>
        ELSE IF style = "relative" THEN SubSeq(s, Len(sbase) + 1, Len(s))
        ELSE s)

\* The batch calls the model makes: the layout is defined for every source
\* and no destination leaves the modelled directory tree.
BatchArgsOk(b) ==
    /\ b.include_base => b.sbase # Root
    /\ b.style = "absolute" => b.sbase = Root
    /\ \A k \in 1..Len(b.sources) :
         /\ b.style = "relative" => IsPrefix(b.sbase, b.sources[k]) /\ b.sources[k] # b.sbase
         /\ CreateDestPath(b.sources[k], b.sbase, b.dbase, b.style, b.include_base) \in Paths

\* The source paths handed to a batch call: two files of the same name in
\* different directories (the first possibly missing) and a directory.
BatchSources == {<<"a">>, <<"R", "a">>, <<"R">>}

BatchCalls ==
    {b \in [op : {"copy_files_with_path", "move_files_with_path"},
            sources : UNION {[1..n -> BatchSources] : n \in 0..MaxBatch},
            sbase : {Root, <<"R">>},
            dbase : {Root} \cup Top,
            style : {"flat", "relative", "absolute"},
            include_base : BOOLEAN,
            preserve : BOOLEAN,
            overwrite : BOOLEAN,
            i : {1},
            results : {NoBatch.results},
            transferred : {{}}] : BatchArgsOk(b)}

\* The filesystems a batch call starts from: a source directory <<"R">> and
\* a file beside it.
InitBatchFs ==
    {f \in InitFs : /\ IsDir(f, <<"R">>)
                    /\ f[<<"R", "a">>] = InitFile(1)
                    /\ f[<<"a">>] \in {Absent, InitFile(2)}}

InitBatch ==
    /\ Init
    /\ fs \in InitBatchFs
    /\ platform = "Windows" => pywin32

\* Entry of the call, up to the loop (on Windows the model makes the calls
\* with preserve_attrs=False only): dest_base.mkdir(parents=True,
\* exist_ok=True) stands outside every try block, so its exception leaves the
\* call.
BatchStart ==
    /\ pc = "idle"
    /\ \E b \in {c \in BatchCalls : platform = "Windows" => ~c.preserve} :
         \E mk \in MkdirParents(fs, b.dbase) :
            /\ fs' = mk.fs
            /\ IF mk.ok
               THEN /\ batch' = b
                    /\ pc' = "batch"
                    /\ last' = [NoCall EXCEPT !.op = b.op, !.dst = b.dbase,
                                              !.preserve = b.preserve,
                                              !.overwrite = b.overwrite]
               ELSE /\ batch' = NoBatch
                    /\ pc' = "raised"
                    /\ last' = [NoCall EXCEPT !.op = b.op, !.dst = b.dbase,
                                              !.preserve = b.preserve,
                                              !.overwrite = b.overwrite,
                                              !.raised = TRUE]
    /\ pre' = fs
    /\ UNCHANGED <<platform, pywin32, disk, norm, snap>>

\* A loop that ends at the first file that fails.
NextIndexStopOnFailure(b, ok) == IF ok THEN b.i + 1 ELSE Len(b.sources) + 1

\* The for loop goes on to the next source, whatever the outcome: both the
\* `continue` of a skipped source and the except of a failed one stay in it.
NextIndex(b, ok) == b.i + 1

\* Whether a call of copy_file / move_file (its trace tr, the filesystem f it
\* started from) put the source at the destination d it was given: the copy
\* or move primitive did its work, and wrote d itself.
Landed(op, f, d, tr) ==
    /\ ~IsDir(f, d)
    /\ \E k \in 1..Len(tr) :
          /\ tr[k].depth = 0 /\ tr[k].res = "ok"
          /\ tr[k].call \in (IF op = "copy_files_with_path"
                             THEN {"copy2", "robocopy"} ELSE {"move", "unlink"})
          /\ tr[k].call = "robocopy" => tr[k].arg = "copied"

\* One iteration of the loop over source_files.
BatchStep ==
    /\ pc = "batch"
    /\ batch.i <= Len(batch.sources)
    /\ LET s == batch.sources[batch.i]
           d == CreateDestPath(s, batch.sbase, batch.dbase, batch.style,
                               batch.include_base)
       IN  IF ~Exists(fs, s) \/ ~IsFile(fs, s)
           THEN /\ batch' = [batch EXCEPT !.i = NextIndex(batch, FALSE),
                                !.results[s] = [set |-> TRUE, ok |-> FALSE, dest |-> s]]
                /\ fs' = fs
           ELSE \E r \in IF batch.op = "copy_files_with_path"
                         THEN CopyFile(platform, pywin32, fs, s, d,
                                       batch.preserve, batch.overwrite)
                         ELSE MoveFile(platform, pywin32, fs, s, d,
                                       batch.preserve, batch.overwrite) :
                   /\ batch' = [batch EXCEPT !.i = NextIndex(batch, r.ret),
                                   !.results[s] = [set |-> TRUE, ok |-> r.ret, dest |-> d],
                                   !.transferred =
                                       IF Landed(batch.op, fs, d, r.trace)
                                       THEN @ \cup {<<s, d>>} ELSE @]
                   /\ fs' = r.fs
    /\ UNCHANGED <<platform, pywin32, disk, norm, pre, last, snap, pc>>

\* The loop is over: return results.
BatchReturn ==
    /\ pc = "batch"
    /\ batch.i > Len(batch.sources)
    /\ last' = [last EXCEPT !.ret = TRUE]
    /\ pc' = "done"
    /\ UNCHANGED <<platform, pywin32, disk, norm, fs, pre, snap, batch>>

NextBatch == BatchStart \/ BatchStep \/ BatchReturn

SpecBatch == InitBatch /\ [][NextBatch]_vars

---------------------------------------------------------------------------
(* Claims about copy_file and move_file (specification Spec).              *)

Transfer == last.op \in {"copy_file", "move_file"}

\* C1: whenever copy_file returns True, dest is a regular file whose content
\* is the content source had when the call started.
C1_CopyTrueMeansDestHoldsSource ==
    (last.op = "copy_file" /\ last.ret)
        => /\ IsFile(fs, last.dst)
           /\ fs[last.dst].content = pre[last.src].content

\* C2: copy_file and move_file with overwrite = false, while something exists
\* at dest, return False and leave the destination and the source unchanged.
C2_NoOverwriteLeavesDest ==
    (Transfer /\ ~last.overwrite /\ Exists(pre, last.dst))
        => /\ ~last.ret
           /\ fs[last.dst] = pre[last.dst]
           /\ fs[last.src] = pre[last.src]

C2_Witness ==
    /\ last.op = "copy_file"
    /\ ~last.overwrite
    /\ IsFile(pre, last.src)
    /\ IsFile(pre, last.dst)
    /\ last.src # last.dst
    /\ pre[last.src].content # pre[last.dst].content

\* C3: when source does not exist or is no regular file, copy_file and
\* move_file return False and the filesystem is exactly as before the call
\* (no parent directory of dest is created).
C3_BadSourceNoMutation ==
    (Transfer /\ ~IsFile(pre, last.src))
        => /\ ~last.ret
           /\ fs = pre

C3_Witness ==
    /\ last.op = "move_file"
    /\ IsDir(pre, last.src)
    /\ ~Exists(pre, Parent(last.dst))
    /\ last.overwrite

\* C4: for source and dest naming different paths, whenever move_file returns
\* True the source path no longer exists and dest is a regular file holding
\* the source's original content.
C4_MoveTrueMeansMoved ==
    (last.op = "move_file" /\ last.ret /\ last.src # last.dst)
        => /\ ~Exists(fs, last.src)
           /\ IsFile(fs, last.dst)
           /\ fs[last.dst].content = pre[last.src].content

\* C5: in move_file's cross-device fallback the source is unlinked only after
\* copy_file has returned True; when copy_file returned False the source is
\* not unlinked and is still there as it was.
C5_UnlinkOnlyAfterCopy ==
    last.op = "move_file"
        => /\ \A i \in 1..Len(last.trace) :
                (last.trace[i].call = "unlink" /\ last.trace[i].depth = 0)
                    => /\ i > 1
                       /\ \E j \in 1..(i - 1) :
                            /\ last.trace[j].call = "copy_file"
                            /\ last.trace[j].res = "ok"
                            /\ last.trace[j].depth = 0
           /\ Has0(last.trace, "copy_file", "fail")
                => /\ ~Called0(last.trace, "unlink")
                   /\ IsFile(fs, last.src)
                   /\ fs[last.src].content = pre[last.src].content

C5_Witness ==
    /\ last.op = "move_file"
    /\ Has0(last.trace, "move", "EXDEV")
    /\ Has0(last.trace, "copy_file", "fail")
    /\ Called(last.trace, "copy2")

\* C9: a failure while applying metadata to the destination never turns a
\* completed transfer into a failure: once the copy step (copy_file) or the
\* move step (move_file) has succeeded, the call returns True whatever
\* apply_file_metadata returned.
C9_MetadataFailureKeepsSuccess ==
    /\ (last.op = "copy_file"
        /\ (Has0(last.trace, "robocopy", "ok") \/ Has0(last.trace, "copy2", "ok")))
            => last.ret
    /\ (last.op = "move_file"
        /\ (Has0(last.trace, "move", "ok") \/ Has0(last.trace, "unlink", "ok")))
            => last.ret
    /\ (Transfer /\ Called0(last.trace, "apply")) => last.ret

C9_Witness ==
    /\ last.op = "copy_file"
    /\ Has0(last.trace, "copy2", "ok")
    /\ Has0(last.trace, "apply", "fail")
    /\ Has0(last.trace, "chown", "fail")

\* Whether an event is a copy or move primitive that did its work.
Completed(e) ==
    \/ e.call = "copy2" /\ e.res = "ok"
    \/ e.call = "robocopy" /\ e.res = "ok" /\ e.arg = "copied"
    \/ e.call = "move" /\ e.res = "ok"
    \/ e.call = "unlink" /\ e.res = "ok"

IsPrimitive(e) == e.call \in {"copy2", "robocopy", "move"}

\* C22: in copy_file and move_file with preserve_attrs = true the source's
\* metadata is captured before the copy / move primitive is invoked, and the
\* snapshot is applied to the destination only after the primitive has
\* completed successfully; with preserve_attrs = false there is neither a
\* capture nor an apply.
C22_CaptureBeforeApplyAfter ==
    Transfer =>
        LET tr == last.trace
        IN  /\ last.preserve =>
                \A i \in 1..Len(tr) :
                    /\ IsPrimitive(tr[i]) =>
                          \E j \in 1..(i - 1) : /\ tr[j].call = "collect"
                                                /\ tr[j].depth = tr[i].depth
                    /\ tr[i].call = "apply" =>
                          \E j \in 1..(i - 1) : /\ Completed(tr[j])
                                                /\ tr[j].depth = tr[i].depth
            /\ ~last.preserve => ~Called(tr, "collect") /\ ~Called(tr, "apply")

\* C23: whenever move_file returns False, the source is still there with
\* the content it had when the call started (a source that was a regular
\* file is still one), on every failure path: precondition failure, error of
\* the direct move, failed cross-device copy, failed deletion of the source.
C23_FalseKeepsSource ==
    (last.op = "move_file" /\ ~last.ret)
        => /\ Exists(pre, last.src) => Exists(fs, last.src)
           /\ IsFile(pre, last.src)
                => /\ IsFile(fs, last.src)
                   /\ fs[last.src].content = pre[last.src].content

\* The source deletion of the cross-device fallback failed after the copy.
C23_Witness ==
    /\ last.op = "move_file" /\ ~last.ret
    /\ Has0(last.trace, "copy_file", "ok")
    /\ Has0(last.trace, "unlink", "fail")
    /\ IsFile(fs, last.src)
    /\ IsFile(fs, last.dst)
    /\ last.src # last.dst

\* The paths a transfer to dst may change: dst, its ancestors that were
\* missing, and for move_file the source.
MayChange(op, f, s, d) ==
    {d} \cup {p \in Prefixes(d) : ~Exists(f, p)}
        \cup (IF op = "move_file" THEN {s} ELSE {})

\* C24: copy_file and move_file change no filesystem object other than the
\* destination path, the missing ancestor directories of the destination and
\* (move_file) the source path; no other file is created and no existing
\* directory is altered.
C24_FrameOfTransfer ==
    Transfer => \A p \in Paths :
                    fs[p] # pre[p] => p \in MayChange(last.op, pre, last.src, last.dst)

---------------------------------------------------------------------------
(* Claims about apply_file_metadata (specification SpecMeta).              *)

\* Whether the platform-specific part of the snapshot names something to write.
PlatformPartPresent(md) ==
    \/ platform # "Windows" /\ "unix" \in md.keys
    \/ platform = "Windows" /\ "windows" \in md.keys /\ pywin32
       /\ "attributes" \in md.wkeys
    \/ platform = "Windows" /\ "windows" \in md.keys /\ ~pywin32
       /\ "attrib_output" \in md.wkeys /\ md.attrib_output # {}

PlatformPartAttempted(tr) ==
    Called(tr, "chown") \/ Called(tr, "setattr") \/ Called(tr, "attrib")

\* C7: each field family present in the snapshot is attempted independently:
\* a chmod failure does not prevent the utime call, and a chmod or utime
\* failure does not prevent the owner/group or attribute application.
C7_FamiliesIndependent ==
    last.op = "apply"
        => /\ (Has(last.trace, "chmod", "fail") /\ "timestamps" \in last.md.keys)
                => Called(last.trace, "utime")
           /\ ((Has(last.trace, "chmod", "fail") \/ Has(last.trace, "utime", "fail"))
               /\ PlatformPartPresent(last.md))
                => PlatformPartAttempted(last.trace)

\* C8: apply_file_metadata returns True only if every field write it attempted
\* succeeded (chmod, utime, chown, SetFileAttributes, each `attrib` command).
C8_TrueOnlyIfAllWritesSucceeded ==
    (last.op = "apply" /\ last.ret)
        => \A i \in 1..Len(last.trace) : last.trace[i].res = "ok"

\* C10: for files A and B on which the writes succeed, collect(A), apply(B,
\* snapshot), collect(B) yields the mode and the modified timestamp captured
\* from A, the timestamps having been set by one utime call.
C10_RoundTrip ==
    (/\ pc = "recaptured"
     /\ IsFile(fs, last.src)
     /\ IsFile(fs, last.dst)
     /\ snap.keys # {}
     /\ last.md.keys # {}
     /\ \A i \in 1..Len(last.trace) : last.trace[i].res = "ok")
        => /\ last.md.mode = snap.mode
           /\ last.md.modified = snap.modified
           /\ Cardinality({i \in 1..Len(last.trace) : last.trace[i].call = "utime"}) = 1

\* The read of the platform-specific part was made and failed.
PlatformReadFailed(tr) ==
    Has(tr, "GetFileAttributes", "fail") \/ Has(tr, "attrib", "fail")

\* C11: when the read of the platform-specific part fails, the snapshot
\* collect_file_metadata returns still has the mode and the three timestamps
\* of the file and an empty platform-specific part, and the call leaves the
\* filesystem as it was.
C11_PartialReadKeepsBase ==
    /\ last.op \in {"collect", "recollect"} => fs = pre
    /\ (last.op = "collect" /\ PlatformReadFailed(last.trace))
          => /\ {"mode", "timestamps"} \subseteq last.md.keys
             /\ last.md.mode = StatMode(platform, fs[last.src])
             /\ last.md.modified = ToFloat(fs[last.src].mtime)
             /\ last.md.accessed = ToFloat(fs[last.src].atime)
             /\ last.md.created = ToFloat(fs[last.src].ctime)
             /\ last.md.wkeys = {}
             /\ last.md.attributes = {} /\ last.md.attrib_output = {}

C11_Witness ==
    /\ last.op = "collect" /\ IsFile(fs, last.src)
    /\ Has(last.trace, "attrib", "fail")
    /\ last.md.keys = {"mode", "timestamps", "windows"}

\* C12: for an existing regular file the snapshot of collect_file_metadata
\* has a "size" entry and an "mtime" entry.
C12_SizeAndMtimeKeys ==
    (last.op = "collect" /\ IsFile(fs, last.src) /\ last.md.keys # {})
        => {"size", "mtime"} \subseteq last.md.keys

\* C29: on Windows without pywin32 (the textual `attrib` fallback), capture
\* followed by apply sets a flag among A, R, H, S on the destination only if
\* that flag was set on the source file; no flag is set because its letter
\* occurs elsewhere in the captured listing, such as in the file's path.
C29_OnlySourceFlagsSet ==
    (/\ pc = "applied" /\ platform = "Windows" /\ ~pywin32
     /\ IsFile(pre, last.src) /\ IsFile(pre, last.dst))
        => (fs[last.dst].attrs \ pre[last.dst].attrs) \subseteq pre[last.src].attrs

---------------------------------------------------------------------------
(* Claims about create_symlink, remove_file and remove_directory           *)
(* (specification SpecTree).                                               *)

LinkCall == last.op = "create_symlink"

\* The directory entry the link path named when the call began.
LinkEntry == Entry(pre, last.dst)

\* How often a platform call occurs in a trace, and where.
Count(tr, call) == Cardinality({i \in 1..Len(tr) : tr[i].call = call})

Before(tr, c1, c2) ==
    \A i, j \in 1..Len(tr) : (tr[i].call = c1 /\ tr[j].call = c2) => i < j

CreationAttempted(tr) ==
    \/ Called(tr, "mkdir") \/ Called(tr, "os.symlink")
    \/ Called(tr, "dazzlelink") \/ Called(tr, "mklink")

\* C13: create_symlink with force=false, when a file, a directory, a live or
\* a dangling symbolic link is at the link path, returns False, makes no
\* platform call and leaves the whole filesystem as it was.
C13_NoForceNoEffect ==
    (LinkCall /\ ~last.force /\ Kind(pre, LinkEntry) # "none")
        => ~last.ret /\ fs = pre /\ last.trace = <<>>

C13_Witness ==
    /\ LinkCall /\ ~last.force /\ ~last.ret
    /\ Kind(pre, last.dst) = "link" /\ ~Exists(pre, last.dst)
    /\ fs = pre

\* C14: create_symlink with force=true against an existing link path removes
\* a real directory with rmtree and a file or a symbolic link (also one to a
\* directory) with one unlink that changes nothing but that entry; a failed
\* removal gives False with no creation attempted; and when the call returns
\* True the link path is a symbolic link holding, and resolving as, the
\* given target.
C14_ForceReplaces ==
    /\ (LinkCall /\ last.force /\ Kind(pre, LinkEntry) = "dir")
          => Count(last.trace, "rmtree") = 1 /\ ~Called(last.trace, "unlink")
    /\ (LinkCall /\ last.force /\ Kind(pre, LinkEntry) \in {"file", "link"})
          => /\ Count(last.trace, "unlink") = 1 /\ ~Called(last.trace, "rmtree")
             /\ \A q \in Paths \ {LinkEntry} : fs[q] = pre[q]
    /\ (LinkCall /\ (Has(last.trace, "rmtree", "fail") \/ Has(last.trace, "unlink", "fail")))
          => ~last.ret /\ ~CreationAttempted(last.trace)
    /\ (LinkCall /\ last.ret)
          => /\ IsSymlink(fs, last.dst)
             /\ fs[Entry(fs, last.dst)].target = last.src
             /\ Resolve(fs, last.dst) = Resolve(fs, last.src)

C14_Witness ==
    /\ LinkCall /\ last.force /\ last.ret
    /\ Kind(pre, last.dst) = "link" /\ IsDir(pre, last.dst)
    /\ last.src # pre[last.dst].target
    /\ IsFile(fs, last.src) /\ IsFile(fs, last.dst)
    /\ IsFile(fs, <<"R", "a">>)

C19_TrueMeansGone ==
    (last.op \in {"remove_file", "remove_directory"} /\ last.ret)
        => ~Exists(fs, last.src)

---------------------------------------------------------------------------
(* Claims about check_disk_space (specification SpecDisk).                 *)

DiskCall == last.op = "check_disk_space"

\* C17: with raise_on_insufficient false check_disk_space raises nothing,
\* and reports too little space and an unreadable disk usage alike as a
\* False flag with a message; with raise_on_insufficient true and the free
\* space below the amount required it raises InsufficientSpaceError with
\* shortfall = required - available > 0.
C17_RaiseOnlyWhenAsked ==
    /\ (DiskCall /\ ~disk.raise_on_insufficient)
          => /\ disk.raised = "none"
             /\ ~disk.has_space => disk.message # ""
             /\ ~disk.readable => ~disk.has_space
             /\ (disk.readable
                    /\ disk.free < disk.required_bytes
                                     + MarginBytes(disk.required_bytes, disk.margin))
                   => ~disk.has_space
    /\ (/\ DiskCall /\ disk.raise_on_insufficient /\ disk.readable
        /\ disk.free < disk.required_bytes
                         + MarginBytes(disk.required_bytes, disk.margin))
          => /\ disk.raised = "InsufficientSpaceError"
             /\ disk.err_available = disk.free
             /\ disk.err_shortfall = disk.err_required - disk.err_available
             /\ disk.err_shortfall > 0

C17_Witness ==
    /\ DiskCall /\ disk.raise_on_insufficient /\ disk.readable
    /\ disk.raised = "InsufficientSpaceError"
    /\ disk.margin = 1 /\ disk.err_shortfall = 2

\* C18: when the disk usage can be read, has_space is True exactly when
\* free >= required_bytes + floor(required_bytes * safety_margin), and that
\* sum is the required_with_margin returned.
C18_MarginArithmetic ==
    (DiskCall /\ disk.readable /\ disk.raised = "none")
        => LET exact == disk.required_bytes
                          + (disk.required_bytes * disk.margin) \div 2
           IN  /\ disk.has_space <=> disk.free >= exact
               /\ disk.required = exact

\* C27: in every tuple check_disk_space returns, the one returned when the
\* disk usage cannot be read included, the second element is
\* required_bytes + floor(required_bytes * safety_margin).
C27_RequiredIncludesMargin ==
    (DiskCall /\ disk.raised = "none")
        => disk.required = disk.required_bytes
                             + (disk.required_bytes * disk.margin) \div 2

UsageCall == last.op = "get_disk_usage"

\* The path and its ancestors, up to the anchor.
Ancestors(p) == Prefixes(p) \cup {Root}

\* No ancestor of the path, up to the anchor, exists.
NoAncestor == \A q \in Ancestors(disk.path) : ~PathExists(fs, disk.anchored, q)

\* The walk-up loop of get_disk_usage ends, whatever the path.
C28_Terminates == (UsageCall /\ pc = "walk") ~> (UsageCall /\ pc = "done")

\* C28: get_disk_usage reports the usage of the nearest existing ancestor of
\* the path (the path itself when it exists), for absolute and relative
\* paths, existing or not, and raises OSError exactly when no ancestor up to
\* the root exists.
C28_NearestAncestorOrRaise ==
    (UsageCall /\ pc = "done")
        => /\ disk.raised = "none"
                => /\ disk.readable
                   /\ disk.checked \in Ancestors(disk.path)
                   /\ PathExists(fs, disk.anchored, disk.checked)
                   /\ \A q \in Ancestors(disk.path) :
                         PathExists(fs, disk.anchored, q) => Len(q) <= Len(disk.checked)
           /\ disk.raised = "OSError" <=> NoAncestor

SizeCall == last.op = "calculate_total_size"

\* The names by which a file can be reached from a listed path.
Reaches == Paths \cup {Append(q, n) : q \in Sub, n \in Names}

\* Whether the name v, the listed path p or one below it, passes a symbolic
\* link at p or below.
ThroughLink(f, p, v) ==
    \E k \in Len(p)..Len(v) : IsSymlink(f, SubSeq(v, 1, k))

\* The files that count for the listed path p: p itself when it is a file,
\* those below it when it is a directory; without follow_symlinks none that
\* is reached through a symbolic link.
Counted(f, p, follow) ==
    {v \in Reaches : /\ IsPrefix(p, v)
                     /\ IsFile(f, v)
                     /\ follow \/ ~ThroughLink(f, p, v)}

\* C30: calculate_total_size returns the sum of the sizes of the listed
\* existing files and of all files inside the listed directories, skipping
\* what does not exist (0 for an empty list); with follow_symlinks=false no
\* file reached through a symbolic link counts, be the link a listed path
\* (to a file or to a directory) or inside a listed directory.
C30_TotalIsSumOfFiles ==
    SizeCall
        => last.total =
             SumFun([k \in 1..Len(last.paths) |->
                        SumFun([v \in Counted(fs, last.paths[k], last.follow) |->
                                   StSize(fs[Resolve(fs, v)])])])

---------------------------------------------------------------------------
(* Claims about path normalization (specification SpecPath).               *)

\* The native Windows form of drive and segments: X:\seg\seg, or X: alone.
NativeWindows(drive, rest) ==
    <<UpperCase(drive), ":">>
    \o (IF rest = <<>> THEN <<>> ELSE <<"\\">> \o JoinSegs(rest, "\\"))

\* C20: on a Windows target every Git-Bash drive path (/x/rest, /x, /x/) and
\* every WSL mount path (/mnt/x/rest), the drive letter in either case,
\* normalizes to X:\rest with the letter in upper case and every / rewritten
\* to \, and the two spellings of one location normalize alike.
C20_DriveFormsToNative ==
    (/\ norm.done /\ platform = "Windows"
     /\ \/ norm.form = "gitbash"
        \/ norm.form = "wsl" /\ norm.rest # <<>>)
        => /\ norm.output = NativeWindows(norm.drive, norm.rest)
           /\ norm.output[1] \in UpperLetters
           /\ \A i \in 1..Len(norm.output) : norm.output[i] # "/"
           /\ norm.twin = norm.output

C20_Witness ==
    /\ norm.done /\ platform = "Windows" /\ norm.form = "wsl"
    /\ norm.input = <<"/", "m", "n", "t", "/", "m", "/", "U", "s", "/", "x">>
    /\ norm.output = <<"M", ":", "\\", "U", "s", "\\", "x">>

\* C21: normalization is idempotent on both targets: normalizing a result
\* again gives the same string, for a path in any of the input forms; the
\* empty string gives ".".
C21_Idempotent ==
    /\ norm.redone => norm.again = norm.output
    /\ (norm.done /\ norm.input = <<>>) => norm.output = <<".">>

C21_Witness ==
    /\ norm.redone /\ platform = "Linux"
    /\ norm.input = <<"C", ":", "\\", "U", "s", "\\", "x">>
    /\ norm.output = <<"/", "c", "/", "U", "s", "/", "x">>
    /\ norm.again = norm.output

\* C25: whenever create_symlink returns False, the object that was at the
\* link path before the call (a file, a symbolic link, or a directory with
\* what is below it) is still there unchanged, for every value of force and
\* on both platform branches.
C25_FalseLeavesLinkPath ==
    (LinkCall /\ ~last.ret /\ LinkEntry \in Paths /\ Kind(pre, LinkEntry) # "none")
        => /\ fs[LinkEntry] = pre[LinkEntry]
           /\ \A q \in Below(LinkEntry) : fs[q] = pre[q]

---------------------------------------------------------------------------
(* Claims about the public boundary (specification SpecBatch).             *)

BatchOps == {"copy_files_with_path", "move_files_with_path"}

\* C16: once in its loop, a batch call takes the sources one by one to the
\* end of the list whatever the outcome of each; a source that is missing or
\* not a regular file is recorded as failed and changes nothing in the
\* filesystem; and the map returned has an entry for every source given.
C16_EverySourceAttempted ==
    /\ []((pc = "done" /\ last.op \in BatchOps)
             => /\ batch.i = Len(batch.sources) + 1
                /\ \A k \in 1..Len(batch.sources) : batch.results[batch.sources[k]].set)
    /\ [][(pc = "batch" /\ batch.i <= Len(batch.sources))
             => LET s == batch.sources[batch.i]
                IN  /\ pc' = "batch"
                    /\ batch'.i = batch.i + 1
                    /\ batch'.results[s].set
                    /\ ~IsFile(fs, s) => /\ fs' = fs
                                         /\ ~batch'.results[s].ok]_vars

C16_Witness ==
    /\ pc = "done" /\ last.op \in BatchOps /\ Len(batch.sources) = 2
    /\ ~IsFile(pre, batch.sources[1])
    /\ ~batch.results[batch.sources[1]].ok
    /\ batch.results[batch.sources[2]].ok
    /\ IsFile(fs, batch.results[batch.sources[2]].dest)

\* C6: no public operation lets an exception reach its caller: whatever the
\* filesystem and whichever underlying call fails, the call returns.
C6_NoExceptionEscapes == ~last.raised /\ pc # "raised"

\* C26: in the map a batch call returns, the flag recorded for a source is
\* True exactly when that source was copied / moved during the call to the
\* destination recorded with it, also when a source is listed twice and when
\* two sources have the same destination.
C26_FlagMeansTransferred ==
    (pc = "done" /\ last.op \in BatchOps)
        => \A s \in Paths :
              /\ batch.results[s].set
                    => (batch.results[s].ok
                          <=> <<s, batch.results[s].dest>> \in batch.transferred)
              /\ (\E d \in Paths : <<s, d>> \in batch.transferred)
                    => batch.results[s].ok

============================================================================
